---- MODULE Spec2Model ----
(***************************************************************************)
(* Model of the blog backend's authentication/session subsystem:           *)
(*   app/core/security.py  password hashing and the JWT token service      *)
(*   app/api/auth.py       register, login, me, logout, get_current_user   *)
(*   app/api/users.py      CRUD over the test_users table                  *)
(*   app/core/database.py  the connection pool helper                      *)
(*                                                                         *)
(* Time is counted in whole seconds (the resolution of the "exp" claim).   *)
(* Python's None is the empty set, a present value v is the set {v}.       *)
(***************************************************************************)
EXTENDS Integers, Sequences, FiniteSets, Bags, TLC

(***************************************************************************)
(* Bounds of the model.                                                    *)
(***************************************************************************)
\* rows the serial id sequence of test_users may hand out
MaxId == 2
\* clock advances in one behaviour
MaxTicks == 2
\* requests of one concurrent run
MaxRequests == 3

(***************************************************************************)
(* Program constants.                                                      *)
(***************************************************************************)
\* security.py:24  default of ACCESS_TOKEN_EXPIRE_MINUTES
DefaultExpireMinutes == 15
\* auth.py:204  max_age=60 * 15
COOKIE_MAX_AGE == 900
\* database.py:32  max_size=10
max_size == 10

\* auth.py:30
COOKIE_NAME == "access_token"
\* security.py:22
SECRET_KEY == "CHANGE_ME_DEV_ONLY"
\* a key that is not the server's
OtherKey == "NOT_THE_SERVER_KEY"

\* values the environment may give ACCESS_TOKEN_EXPIRE_MINUTES (security.py:24)
ExpireMinutesChoices == {1, DefaultExpireMinutes}

(***************************************************************************)
(* Inputs of the requests.                                                 *)
(***************************************************************************)
Names == {"A"}
Emails == {"a@x.com", "b@x.com"}
Passwords == {"secret", "other"}
\* bcrypt draws a fresh salt per call
Salts == {"s1"}

None == {}
Some(v) == {v}
\* the value inside a present optional
The(o) == CHOOSE v \in o : TRUE

(***************************************************************************)
(* str(int) and int(str): decimal strings are sequences of characters.     *)
(***************************************************************************)
Digits == <<"0", "1", "2", "3", "4", "5", "6", "7", "8", "9">>

IsDigit(c) == \E d \in 1..10 : Digits[d] = c

DigitVal(c) == (CHOOSE d \in 1..10 : Digits[d] = c) - 1

RECURSIVE Str(_)
\* str(n) for n >= 0
Str(n) == IF n < 10 THEN <<Digits[n + 1]>>
          ELSE Str(n \div 10) \o <<Digits[(n % 10) + 1]>>

\* int(s) succeeds (no ValueError)
CanParseInt(s) == Len(s) > 0 /\ \A i \in 1..Len(s) : IsDigit(s[i])

RECURSIVE IntOf(_)
\* int(s) for a string of digits
IntOf(s) == IF Len(s) = 0 THEN 0
            ELSE 10 * IntOf(SubSeq(s, 1, Len(s) - 1)) + DigitVal(s[Len(s)])

(***************************************************************************)
(* security.py: password hashing.  A hash carries its salt; verifying      *)
(* recomputes the digest under the embedded salt.                          *)
(***************************************************************************)
Digest(salt, password) == <<salt, password>>

hash_password(password, salt) == [salt |-> salt, digest |-> Digest(salt, password)]

\* hashed is the optional column value: passlib returns False for a None hash
verify_password(password, hashed) ==
    /\ hashed # None
    /\ The(hashed).digest = Digest(The(hashed).salt, password)

(***************************************************************************)
(* security.py: the token service.  A token is its claims and a signature  *)
(* over them; the claims are "sub" (optional) and "exp".                   *)
(***************************************************************************)
Sign(claims, key) == <<key, claims>>

Encode(claims, key) == [claims |-> claims, sig |-> Sign(claims, key)]

\* "expires_delta or timedelta(minutes=...)": a zero timedelta is falsy
DeltaOrDefault(expires_delta, minutes) ==
    IF expires_delta # None /\ The(expires_delta) # 0
    THEN The(expires_delta)
    ELSE 60 * minutes

\* subject is an int (it is stringified); exp = now + delta
create_access_token(subject, expires_delta, minutes, clock) ==
    Encode([sub |-> Some(Str(subject)),
            exp |-> clock + DeltaOrDefault(expires_delta, minutes)],
           SECRET_KEY)

\* jwt.decode: the claims, or None when JWTError is raised (bad signature,
\* or exp < now: a token whose exp equals the current second still decodes)
decode_token(token, clock) ==
    IF token.sig # Sign(token.claims, SECRET_KEY) THEN None
    ELSE IF token.claims.exp < clock THEN None
    ELSE Some(token.claims)

(***************************************************************************)
(* Strings that carry a token.  A string is `pad` leading spaces followed  *)
(* by an optional token; the empty string is pad = 0 with no token.        *)
(***************************************************************************)
PyStr(pad, tok) == [pad |-> pad, tok |-> tok]

EmptyStr == PyStr(0, None)

\* truthiness of an Optional[str]: None and "" are falsy
Truthy(s) == s # None /\ (The(s).pad > 0 \/ The(s).tok # None)

\* dict.get(key) over a set of [name, value] items
DictGet(items, key) == {p.value : p \in {q \in items : q.name = key}}

\* str.lower() of the scheme words used as inputs
Lower(word) == CASE word = "Bearer" -> "bearer"
                 [] word = "BEARER" -> "bearer"
                 [] word = "Basic" -> "basic"
                 [] OTHER -> word

\* an Authorization value is scheme, `spaces` blanks, then the rest
AuthValue(scheme, spaces, tok) == [scheme |-> scheme, spaces |-> spaces, tok |-> tok]

\* auth.lower().startswith("bearer ")
StartsWithBearer(auth) == Lower(auth.scheme) = "bearer" /\ auth.spaces >= 1

\* auth.split(" ", 1)[1]: everything after the first blank
AfterFirstSpace(auth) == PyStr(auth.spaces - 1, auth.tok)

\* jwt.decode of a string: only an unpadded token is well formed
decode_string(s, clock) ==
    IF s.pad = 0 /\ s.tok # None THEN decode_token(The(s.tok), clock) ELSE None

(***************************************************************************)
(* The state.                                                              *)
(***************************************************************************)
VARIABLES
    users,              \* rows of test_users: [id, name, email, hashed_password]
    nextId,             \* the serial sequence behind test_users.id
    now,                \* the clock, in seconds
    ticks,              \* clock advances so far
    expire_minutes,     \* ACCESS_TOKEN_EXPIRE_MINUTES, read once at start-up
    jar,                \* the client's access_token cookie, if any
    held,               \* the token the client read from its latest login
    last,               \* the latest request and its response
    requests,           \* the tasks of a concurrent run, with their position
    direct_open,        \* psycopg2 connections open
    pool_out            \* connections checked out of the pool

vars == <<users, nextId, now, ticks, expire_minutes, jar, held, last,
          requests, direct_open, pool_out>>

store == <<users, nextId>>
conns == <<requests, direct_open, pool_out>>
client == <<jar, held>>
time == <<now, ticks>>

\* the shape of `last`; every request fills the fields it uses
Blank == [seq |-> 0, op |-> "none", status |-> 0, clock |-> 0,
          name |-> "", email |-> "", password |-> "", target |-> 0,
          user |-> None, token |-> None,
          cookie_set |-> None, cookie_deleted |-> FALSE,
          cookies |-> {}, headers |-> {}, candidate |-> None,
          decoded |-> FALSE, store_read |-> FALSE,
          delta |-> None, issued_at |-> 0, payload |-> None]

\* a fresh record for the next request
Fresh(op) == [Blank EXCEPT !.seq = 1 - last.seq, !.op = op, !.clock = now]

\* the outward view of a row: the hash never leaves
UserView(row) == [id |-> row.id, name |-> row.name, email |-> row.email]

\* SELECT ... WHERE email = %s
FindByEmail(rows, email) == {u \in rows : u.email = email}

\* SELECT ... WHERE id = %s
FindById(rows, id) == {u \in rows : u.id = id}

InitCommon ==
    /\ users = {}
    /\ nextId = 1
    /\ now = 0
    /\ ticks = 0
    /\ jar = None
    /\ held = None
    /\ last = Blank
    /\ requests = EmptyBag
    /\ direct_open = 0
    /\ pool_out = 0

\* the clock moves on by d seconds
Tick(d) ==
    /\ ticks < MaxTicks
    /\ now' = now + d
    /\ ticks' = ticks + 1
    /\ UNCHANGED <<store, expire_minutes, client, last, conns>>

(***************************************************************************)
(* The token service on its own: issue a token, decode it later.           *)
(***************************************************************************)
Subjects == 1..MaxId
Deltas == {None, Some(-1), Some(0), Some(1), Some(60)}

issue(subject, expires_delta) ==
    /\ held' = Some(create_access_token(subject, expires_delta, expire_minutes, now))
    /\ last' = [Fresh("issue") EXCEPT !.delta = expires_delta, !.issued_at = now,
                   !.token = held']
    /\ UNCHANGED <<store, expire_minutes, time, jar, conns>>

decode ==
    /\ held # None
    /\ last.op \in {"issue", "decode"}
    /\ last' = [Fresh("decode") EXCEPT !.delta = last.delta,
                   !.issued_at = last.issued_at, !.token = held,
                   !.payload = decode_token(The(held), now)]
    /\ UNCHANGED <<store, expire_minutes, time, client, conns>>

InitToken ==
    /\ InitCommon
    /\ expire_minutes \in ExpireMinutesChoices

NextToken ==
    \/ \E subject \in Subjects, d \in Deltas : issue(subject, d)
    \/ decode
    \/ \E d \in {1, 60 * expire_minutes} : Tick(d)

SpecToken == InitToken /\ [][NextToken]_vars

(***************************************************************************)
(* auth.py: session resolution.                                            *)
(***************************************************************************)
\* SelectToken with the two sources tried in the other order
SelectToken_HeaderFirst(cookies, headers) ==
    LET token == DictGet(cookies, COOKIE_NAME)
        auth == DictGet(headers, "Authorization")
    IN  IF auth # None /\ StartsWithBearer(The(auth))
        THEN Some(AfterFirstSpace(The(auth)))
        ELSE token

\* lines 52-58: the cookie first, the Authorization header when it is falsy
SelectToken(cookies, headers) ==
    LET token == DictGet(cookies, COOKIE_NAME)
        auth == DictGet(headers, "Authorization")
    IN  IF Truthy(token) THEN token
        ELSE IF auth # None /\ StartsWithBearer(The(auth))
             THEN Some(AfterFirstSpace(The(auth)))
             ELSE token

\* the outcome of get_current_user before the response is built
Outcome(status, user, candidate, decoded, store_read) ==
    [status |-> status, user |-> user, candidate |-> candidate,
     decoded |-> decoded, store_read |-> store_read]

\* LookupUser answering a missing row with 404
LookupUser_NotFound(rows, user_id, token) ==
    IF FindById(rows, user_id) = {}
    THEN {Outcome(404, None, token, TRUE, TRUE)}
    ELSE {Outcome(200, Some(UserView(row)), token, TRUE, TRUE) :
             row \in FindById(rows, user_id)}

\* lines 78-92: the lookup of the subject; fetchone takes any matching row
LookupUser(rows, user_id, token) ==
    IF FindById(rows, user_id) = {}
    THEN {Outcome(401, None, token, TRUE, TRUE)}
    ELSE {Outcome(200, Some(UserView(row)), token, TRUE, TRUE) :
             row \in FindById(rows, user_id)}

\* lines 64-76: decode, then the subject as an int
ResolveToken(token, rows, t) ==
    LET payload == decode_string(The(token), t)
        user_id_str == IF payload = None THEN None ELSE The(payload).sub
    IN  IF payload = None THEN {Outcome(401, None, token, TRUE, FALSE)}
        ELSE IF user_id_str = None \/ The(user_id_str) = <<>>
             THEN {Outcome(401, None, token, TRUE, FALSE)}
        ELSE IF ~CanParseInt(The(user_id_str))
             THEN {Outcome(401, None, token, TRUE, FALSE)}
        ELSE LookupUser(rows, IntOf(The(user_id_str)), token)

\* the possible outcomes of get_current_user(request)
get_current_user(cookies, headers, rows, t) ==
    LET token == SelectToken(cookies, headers)
    IN  IF ~Truthy(token) THEN {Outcome(401, None, None, FALSE, FALSE)}
        ELSE ResolveToken(token, rows, t)

(***************************************************************************)
(* auth.py: the endpoints, each served without interleaving.               *)
(***************************************************************************)
\* the row register inserts
NewRow(id, name, email, hashed) ==
    [id |-> id, name |-> name, email |-> email, hashed_password |-> hashed]

\* register without the existence check of lines 119-124
register_Unchecked(name, email, password, salt) ==
    /\ nextId <= MaxId
    /\ LET row == NewRow(nextId, name, email, Some(hash_password(password, salt)))
       IN  /\ users' = users \cup {row}
           /\ last' = [Fresh("register") EXCEPT !.status = 201, !.name = name,
                          !.email = email, !.password = password,
                          !.user = Some(UserView(row))]
    /\ nextId' = nextId + 1
    /\ UNCHANGED <<expire_minutes, time, client, conns>>

register(name, email, password, salt) ==
    /\ IF FindByEmail(users, email) # {}
       THEN /\ last' = [Fresh("register") EXCEPT !.status = 409, !.name = name,
                           !.email = email, !.password = password]
            /\ UNCHANGED store
       ELSE /\ nextId <= MaxId
            /\ LET row == NewRow(nextId, name, email,
                                 Some(hash_password(password, salt)))
               IN  /\ users' = users \cup {row}
                   /\ last' = [Fresh("register") EXCEPT !.status = 201,
                                  !.name = name, !.email = email,
                                  !.password = password,
                                  !.user = Some(UserView(row))]
            /\ nextId' = nextId + 1
    /\ UNCHANGED <<expire_minutes, time, client, conns>>

\* the Set-Cookie of login
SetCookie(token) ==
    [key |-> COOKIE_NAME, value |-> token, httponly |-> TRUE, samesite |-> "lax",
     secure |-> FALSE, max_age |-> COOKIE_MAX_AGE]

login(email, password) ==
    /\ \E found \in (IF FindByEmail(users, email) = {} THEN {None}
                     ELSE {Some(row) : row \in FindByEmail(users, email)}) :
          IF found = None \/ ~verify_password(password, The(found).hashed_password)
          THEN /\ last' = [Fresh("login") EXCEPT !.status = 401, !.email = email,
                              !.password = password]
               /\ UNCHANGED client
          ELSE LET token == create_access_token(The(found).id, None,
                                                expire_minutes, now)
               IN  /\ last' = [Fresh("login") EXCEPT !.status = 200,
                                  !.email = email, !.password = password,
                                  !.token = Some(token),
                                  !.user = Some(UserView(The(found))),
                                  !.cookie_set = Some(SetCookie(token))]
                   /\ jar' = Some(token)
                   /\ held' = Some(token)
    /\ UNCHANGED <<store, expire_minutes, time, conns>>

me(cookies, headers) ==
    /\ \E r \in get_current_user(cookies, headers, users, now) :
          last' = [Fresh("me") EXCEPT !.status = r.status, !.user = r.user,
                      !.cookies = cookies, !.headers = headers,
                      !.candidate = r.candidate, !.decoded = r.decoded,
                      !.store_read = r.store_read]
    /\ UNCHANGED <<store, expire_minutes, time, client, conns>>

\* logout that leaves the cookie in place
logout_KeepsCookie ==
    /\ last' = [Fresh("logout") EXCEPT !.status = 204]
    /\ UNCHANGED <<store, expire_minutes, time, client, conns>>

logout ==
    /\ last' = [Fresh("logout") EXCEPT !.status = 204, !.cookie_deleted = TRUE]
    /\ jar' = None
    /\ UNCHANGED <<store, expire_minutes, time, held, conns>>

(***************************************************************************)
(* users.py: CRUD over test_users, each served without interleaving.       *)
(***************************************************************************)
get_users ==
    /\ last' = [Fresh("get_users") EXCEPT !.status = 200]
    /\ UNCHANGED <<store, expire_minutes, time, client, conns>>

create_user(name, email) ==
    /\ nextId <= MaxId
    /\ users' = users \cup {NewRow(nextId, name, email, None)}
    /\ nextId' = nextId + 1
    /\ last' = [Fresh("create_user") EXCEPT !.status = 201, !.name = name,
                   !.email = email]
    /\ UNCHANGED <<expire_minutes, time, client, conns>>

\* UPDATE test_users SET name = %s, email = %s WHERE id = %s
UpdateRows(rows, user_id, name, email) ==
    {IF u.id = user_id THEN [u EXCEPT !.name = name, !.email = email] ELSE u :
        u \in rows}

update_user(user_id, name, email) ==
    /\ users' = UpdateRows(users, user_id, name, email)
    /\ last' = [Fresh("update_user") EXCEPT !.status = 200, !.name = name,
                   !.email = email, !.target = user_id]
    /\ UNCHANGED <<nextId, expire_minutes, time, client, conns>>

patch_user(user_id, name, email) ==
    /\ users' = UpdateRows(users, user_id, name, email)
    /\ last' = [Fresh("patch_user") EXCEPT !.status = 200, !.name = name,
                   !.email = email, !.target = user_id]
    /\ UNCHANGED <<nextId, expire_minutes, time, client, conns>>

delete_user(user_id) ==
    /\ users' = {u \in users : u.id # user_id}
    /\ last' = [Fresh("delete_user") EXCEPT !.status = 204, !.target = user_id]
    /\ UNCHANGED <<nextId, expire_minutes, time, client, conns>>

(***************************************************************************)
(* What a client may send to GET /auth/me.                                 *)
(***************************************************************************)
\* the held token with its subject rewritten and the old signature kept
Tampered(token) ==
    [token EXCEPT !.claims.sub = Some(Str(IntOf(The(token.claims.sub)) + 1))]

\* tokens signed with the server's key whose subject is not str(id): a word,
\* the empty string, no subject at all, and an id written with a leading zero
OddSubjects == {Some(<<"x">>), Some(<<>>), None, Some(<<"0", "1">>)}

TokenInputs ==
    held
    \cup {Tampered(t) : t \in held}
    \cup {Encode([sub |-> s, exp |-> now + 60], SECRET_KEY) : s \in OddSubjects}
    \cup {Encode([sub |-> Some(Str(1)), exp |-> now + 60], OtherKey)}

Cookie(name, value) == [name |-> name, value |-> value]

CookieInputs ==
    {{}, {Cookie(COOKIE_NAME, EmptyStr)}}
    \cup {{Cookie(COOKIE_NAME, PyStr(0, Some(t)))} : t \in TokenInputs}
    \cup {{Cookie("session", PyStr(0, Some(t)))} : t \in held}

Header(value) == [name |-> "Authorization", value |-> value]

HeaderInputs ==
    {{}}
    \cup {{Header(AuthValue(scheme, 1, Some(t)))} :
             scheme \in {"Bearer", "BEARER", "Basic"}, t \in held}
    \cup {{Header(AuthValue("Bearer", n, Some(t)))} : n \in {0, 2}, t \in held}
    \cup {{Header(AuthValue("Bearer", 1, None))}}
    \cup {{Header(AuthValue("bearer", 1, Some(Tampered(t))))} : t \in held}

\* a well-formed bearer header with the held token
BearerInputs ==
    {{Header(AuthValue("Bearer", 1, Some(t)))} : t \in held}

\* cookies that carry a token: the held one, and ones that do not decode
TokenCookies ==
    {{Cookie(COOKIE_NAME, PyStr(0, Some(t)))} :
        t \in held \cup {Tampered(h) : h \in held}}

\* the requests to GET /auth/me: every cookie alone, every header with no
\* cookie, an empty cookie with and without a good header, and a cookie
\* that carries a token together with a good header
MeInputs ==
    (CookieInputs \X {{}})
    \cup ({{}} \X HeaderInputs)
    \cup ({{Cookie(COOKIE_NAME, EmptyStr)}} \X BearerInputs)
    \cup (TokenCookies \X BearerInputs)

(***************************************************************************)
(* The account API served one request at a time.                           *)
(***************************************************************************)
UserIds == 1..MaxId

Init ==
    /\ InitCommon
    /\ expire_minutes \in ExpireMinutesChoices

Next ==
    \/ \E name \in Names, email \in Emails, password \in Passwords, salt \in Salts :
          register(name, email, password, salt)
    \/ \E email \in Emails, password \in Passwords : login(email, password)
    \/ \E t \in held : me({Cookie(COOKIE_NAME, PyStr(0, Some(t)))}, {})
    \/ get_users
    \/ \E name \in Names, email \in Emails : create_user(name, email)
    \/ \E id \in UserIds, name \in Names, email \in Emails :
          update_user(id, name, email)
    \/ \E id \in UserIds, name \in Names, email \in Emails :
          patch_user(id, name, email)
    \/ \E id \in UserIds : delete_user(id)

Spec == Init /\ [][Next]_vars

(***************************************************************************)
(* Sessions served one request at a time: register, login, logout and      *)
(* GET /auth/me while users are deleted and tokens age.                    *)
(***************************************************************************)
InitSession ==
    /\ InitCommon
    /\ expire_minutes = DefaultExpireMinutes

NextSession ==
    \/ \E name \in Names, email \in Emails, salt \in Salts :
          register(name, email, "secret", salt)
    \/ \E email \in Emails, password \in Passwords : login(email, password)
    \/ \E input \in MeInputs : me(input[1], input[2])
    \/ logout
    \/ \E id \in UserIds : delete_user(id)
    \/ Tick(60 * expire_minutes)

SpecSession == InitSession /\ [][NextSession]_vars

(***************************************************************************)
(* Requests served concurrently, statement by statement.  Every request is *)
(* its own task: a record in `requests` with its position `pc` and the     *)
(* connection it holds; a task that has answered stays, at pc "done", with *)
(* its status.  `fault` is the connect or a statement raising a database   *)
(* error.  The client side of a session is followed in SpecSession.        *)
(***************************************************************************)
Request(op, pc, conn) ==
    [op |-> op, pc |-> pc, conn |-> conn, name |-> "", email |-> "",
     password |-> "", salt |-> "", target |-> 0, status |-> 0,
     user |-> None, token |-> None]

Tasks == BagToSet(requests)

\* the number of tasks that hold a connection of the kind
Holders(kind) ==
    LET RECURSIVE Sum(_)
        Sum(S) == IF S = {} THEN 0
                  ELSE LET r == CHOOSE x \in S : TRUE
                       IN  CopiesIn(r, requests) + Sum(S \ {r})
    IN  Sum({r \in Tasks : r.conn = kind})

Admit(r) == requests' = requests (+) SetToBag({r})
Move(r, r2) == requests' = (requests (-) SetToBag({r})) (+) SetToBag({r2})

At(op, pc) == {r \in Tasks : r.op = op /\ r.pc = pc}

\* a request that ended before it had a connection
Refused(op, status) == [Request(op, "done", "none") EXCEPT !.status = status]

\* a statement raised: to the finally block, the answer is a 500
Raise(r) == Move(r, [r EXCEPT !.pc = "finally", !.status = 500])

\* auth.py:114  conn = psycopg2.connect(CONNINFO) in register
register_connect(limit, name, email, password, salt, fault) ==
    /\ BagCardinality(requests) < limit
    /\ IF fault
       THEN Admit(Refused("register", 500)) /\ UNCHANGED direct_open
       ELSE /\ direct_open' = direct_open + 1
            /\ Admit([Request("register", "select", "direct") EXCEPT
                         !.name = name, !.email = email, !.password = password,
                         !.salt = salt])
    /\ UNCHANGED <<store, expire_minutes, time, client, last, pool_out>>

\* register_select where the 409 leaves the handler past its finally block
register_select_Leaky(r, fault) ==
    /\ r \in At("register", "select")
    /\ IF fault THEN Raise(r)
       ELSE IF FindByEmail(users, r.email) # {}
            THEN Move(r, [r EXCEPT !.pc = "done", !.status = 409])
            ELSE Move(r, [r EXCEPT !.pc = "insert"])
    /\ UNCHANGED <<store, expire_minutes, time, client, last, direct_open, pool_out>>

\* auth.py:119-124  the existence check
register_select(r, fault) ==
    /\ r \in At("register", "select")
    /\ IF fault THEN Raise(r)
       ELSE IF FindByEmail(users, r.email) # {}
            THEN Move(r, [r EXCEPT !.pc = "finally", !.status = 409])
            ELSE Move(r, [r EXCEPT !.pc = "insert"])
    /\ UNCHANGED <<store, expire_minutes, time, client, last, direct_open, pool_out>>

\* the row a registration has inserted, with the id the store returned
InsertedRow(r) ==
    NewRow(The(r.user).id, r.name, r.email,
           Some(hash_password(r.password, r.salt)))

\* auth.py:127-142  hash, INSERT ... RETURNING id: the store assigns the id;
\* the table has no unique constraint on email, so the statement is accepted
\* whatever rows exist, and the row stays invisible to other connections
\* until the commit
register_insert(r, fault) ==
    /\ r \in At("register", "insert")
    /\ IF fault
       THEN Raise(r) /\ UNCHANGED nextId
       ELSE /\ nextId <= MaxId
            /\ nextId' = nextId + 1
            /\ LET row == NewRow(nextId, r.name, r.email,
                                 Some(hash_password(r.password, r.salt)))
               IN  Move(r, [r EXCEPT !.pc = "commit",
                               !.user = Some(UserView(row))])
    /\ UNCHANGED <<users, expire_minutes, time, client, last, direct_open, pool_out>>

\* register_commit with a second existence check before the commit
register_commit_Rechecked(r, fault) ==
    /\ r \in At("register", "commit")
    /\ IF fault
       THEN Move(r, [r EXCEPT !.pc = "finally", !.status = 500, !.user = None])
            /\ UNCHANGED users
       ELSE IF FindByEmail(users, r.email) # {}
       THEN Move(r, [r EXCEPT !.pc = "finally", !.status = 409, !.user = None])
            /\ UNCHANGED users
       ELSE /\ users' = users \cup {InsertedRow(r)}
            /\ Move(r, [r EXCEPT !.pc = "finally", !.status = 201])
    /\ UNCHANGED <<nextId, expire_minutes, time, client, last, direct_open, pool_out>>

\* auth.py:145-148  conn.commit() and the 201: the row becomes visible; a
\* commit that raises leaves the row to the rollback of conn.close()
register_commit(r, fault) ==
    /\ r \in At("register", "commit")
    /\ IF fault
       THEN Move(r, [r EXCEPT !.pc = "finally", !.status = 500, !.user = None])
            /\ UNCHANGED users
       ELSE /\ users' = users \cup {InsertedRow(r)}
            /\ Move(r, [r EXCEPT !.pc = "finally", !.status = 201])
    /\ UNCHANGED <<nextId, expire_minutes, time, client, last, direct_open, pool_out>>

\* auth.py:174  conn = psycopg2.connect(CONNINFO) in login
login_connect(limit, email, password, fault) ==
    /\ BagCardinality(requests) < limit
    /\ IF fault
       THEN Admit(Refused("login", 500)) /\ UNCHANGED direct_open
       ELSE /\ direct_open' = direct_open + 1
            /\ Admit([Request("login", "select", "direct") EXCEPT
                         !.email = email, !.password = password])
    /\ UNCHANGED <<store, expire_minutes, time, client, last, pool_out>>

\* auth.py:179-208  the lookup, the password check and the token
login_select(r, fault) ==
    /\ r \in At("login", "select")
    /\ IF fault THEN Raise(r)
       ELSE \E found \in (IF FindByEmail(users, r.email) = {} THEN {None}
                          ELSE {Some(row) : row \in FindByEmail(users, r.email)}) :
               IF found = None
                  \/ ~verify_password(r.password, The(found).hashed_password)
               THEN Move(r, [r EXCEPT !.pc = "finally", !.status = 401])
               ELSE Move(r, [r EXCEPT !.pc = "finally", !.status = 200,
                                !.user = Some(UserView(The(found))),
                                !.token = Some(create_access_token(
                                    The(found).id, None, expire_minutes, now))])
    /\ UNCHANGED <<store, expire_minutes, time, client, last, direct_open, pool_out>>

\* auth.py:52-79  the token checks, then conn = psycopg2.connect(CONNINFO)
me_connect(limit, cookies, headers, fault) ==
    /\ BagCardinality(requests) < limit
    /\ LET token == SelectToken(cookies, headers)
           early == IF ~Truthy(token) THEN {Outcome(401, None, None, FALSE, FALSE)}
                    ELSE ResolveToken(token, {}, now)
           payload == decode_string(The(token), now)
       IN  IF \E o \in early : ~o.store_read
           THEN Admit(Refused("me", 401)) /\ UNCHANGED direct_open
           ELSE IF fault
           THEN Admit(Refused("me", 500)) /\ UNCHANGED direct_open
           ELSE /\ direct_open' = direct_open + 1
                /\ Admit([Request("me", "select", "direct") EXCEPT
                             !.target = IntOf(The(The(payload).sub))])
    /\ UNCHANGED <<store, expire_minutes, time, client, last, pool_out>>

\* auth.py:81-90  the lookup by id
me_select(r, fault) ==
    /\ r \in At("me", "select")
    /\ IF fault THEN Raise(r)
       ELSE \E o \in LookupUser(users, r.target, None) :
               Move(r, [r EXCEPT !.pc = "finally", !.status = o.status,
                           !.user = o.user])
    /\ UNCHANGED <<store, expire_minutes, time, client, last, direct_open, pool_out>>

\* auth.py:91-92, 149-150, 209-210  finally: conn.close(), then the answer
close_connection(r) ==
    /\ r \in Tasks
    /\ r.pc = "finally"
    /\ r.conn = "direct"
    /\ direct_open' = direct_open - 1
    /\ Move(r, [r EXCEPT !.pc = "done", !.conn = "none"])
    /\ UNCHANGED <<store, expire_minutes, time, client, last, pool_out>>

PoolOps == {"get_users", "create_user", "update_user", "patch_user", "delete_user"}

\* database.py:50-53  pool.getconn(): waits while the pool is exhausted
get_db_connection(limit, op, user_id, name, email) ==
    /\ BagCardinality(requests) < limit
    /\ pool_out < max_size
    /\ pool_out' = pool_out + 1
    /\ Admit([Request(op, "execute", "pool") EXCEPT !.target = user_id,
                 !.name = name, !.email = email])
    /\ UNCHANGED <<store, expire_minutes, time, client, last, direct_open>>

\* the answer of a users.py handler that ran through
Done(op) == CASE op = "create_user" -> 201
              [] op = "delete_user" -> 204
              [] OTHER -> 200

\* users.py: cur.execute(...) and conn.commit() of each handler; the effect
\* becomes visible to other connections at the commit
execute(r, fault) ==
    /\ r \in Tasks
    /\ r.op \in PoolOps
    /\ r.pc = "execute"
    /\ IF fault
       THEN Raise(r) /\ UNCHANGED store
       ELSE /\ r.op = "create_user" => nextId <= MaxId
            /\ users' =
                 CASE r.op = "create_user" ->
                        users \cup {NewRow(nextId, r.name, r.email, None)}
                   [] r.op = "delete_user" -> {u \in users : u.id # r.target}
                   [] r.op = "get_users" -> users
                   [] OTHER -> UpdateRows(users, r.target, r.name, r.email)
            /\ nextId' = IF r.op = "create_user" THEN nextId + 1 ELSE nextId
            /\ Move(r, [r EXCEPT !.pc = "finally", !.status = Done(r.op)])
    /\ UNCHANGED <<expire_minutes, time, client, last, direct_open, pool_out>>

\* database.py:54-55  finally: pool.putconn(conn), then the answer
putconn(r) ==
    /\ r \in Tasks
    /\ r.pc = "finally"
    /\ r.conn = "pool"
    /\ pool_out' = pool_out - 1
    /\ Move(r, [r EXCEPT !.pc = "done", !.conn = "none"])
    /\ UNCHANGED <<store, expire_minutes, time, client, last, direct_open>>

InitConc ==
    /\ InitCommon
    /\ expire_minutes = DefaultExpireMinutes

\* the requests of the concurrent runs: one account, the user its
\* registration creates, and the token a login of that user returns
ConcOps == {"get_users", "create_user", "update_user", "delete_user"}

ConcCookies ==
    {{}, {Cookie(COOKIE_NAME,
                 PyStr(0, Some(create_access_token(1, None, expire_minutes, now))))}}

NextConc ==
    \/ \E fault \in BOOLEAN :
          register_connect(MaxRequests, "A", "a@x.com", "secret", "s1", fault)
    \/ \E r \in Tasks, fault \in BOOLEAN : register_select(r, fault)
    \/ \E r \in Tasks, fault \in BOOLEAN : register_insert(r, fault)
    \/ \E r \in Tasks, fault \in BOOLEAN : register_commit(r, fault)
    \/ \E fault \in BOOLEAN : login_connect(MaxRequests, "a@x.com", "secret", fault)
    \/ \E r \in Tasks, fault \in BOOLEAN : login_select(r, fault)
    \/ \E cookies \in ConcCookies, fault \in BOOLEAN :
          me_connect(MaxRequests, cookies, {}, fault)
    \/ \E r \in Tasks, fault \in BOOLEAN : me_select(r, fault)
    \/ \E r \in Tasks : close_connection(r)
    \/ \E op \in ConcOps :
          get_db_connection(MaxRequests, op,
                            IF op \in {"get_users", "create_user"} THEN 0 ELSE 1,
                            IF op \in {"get_users", "delete_user"} THEN "" ELSE "A",
                            IF op \in {"get_users", "delete_user"} THEN ""
                            ELSE "a@x.com")
    \/ \E r \in Tasks, fault \in BOOLEAN : execute(r, fault)
    \/ \E r \in Tasks : putconn(r)

SpecConc == InitConc /\ [][NextConc]_vars

(***************************************************************************)
(* More requests at once than the pool has connections.                    *)
(***************************************************************************)
LoadLimit == max_size + 1

NextLoad ==
    \/ login_connect(LoadLimit, "a@x.com", "secret", FALSE)
    \/ \E r \in Tasks : login_select(r, FALSE)
    \/ \E r \in Tasks : close_connection(r)
    \/ get_db_connection(LoadLimit, "delete_user", 1, "", "")
    \/ \E r \in Tasks : execute(r, FALSE)
    \/ \E r \in Tasks : putconn(r)

SpecLoad == InitConc /\ [][NextLoad]_vars

(***************************************************************************)
(* Properties.  A request was served in a step when last.seq flips; the    *)
(* unprimed variables are then the state the request was served in.        *)
(***************************************************************************)
Served(op) == last'.seq # last.seq /\ last'.op = op

\* C1: after any sequence of register, create_user, update_user, patch_user
\* and delete_user, no two stored rows have the same email.
C1_UniqueEmails ==
    \A u \in users, v \in users : u.email = v.email => u = v

\* C2: a token created with a ttl of zero, or with an expiry that is not
\* after its time of issue, never decodes at that time or later.
C2_ZeroTtlRejected ==
    (/\ last.op = "decode"
     /\ \/ last.delta = Some(0)
        \/ The(last.token).claims.exp <= last.issued_at)
    => last.payload = None

\* C3: register served alone: with no row of the submitted email it inserts
\* exactly one row (name, email, a hash of the password) under the id the
\* store assigns and answers 201 with that id; with such a row it answers 409
\* and leaves the table as it was.
C3_RegisterContract ==
    [][Served("register") =>
          IF \A u \in users : u.email # last'.email
          THEN /\ last'.status = 201
               /\ \E row \in users' :
                     /\ row \notin users
                     /\ users' = users \cup {row}
                     /\ row.id = nextId
                     /\ \A u \in users : u.id # row.id
                     /\ row.name = last'.name
                     /\ row.email = last'.email
                     /\ verify_password(last'.password, row.hashed_password)
                     /\ last'.user = Some([id |-> row.id, name |-> row.name,
                                           email |-> row.email])
          ELSE /\ last'.status = 409
               /\ last'.user = None
               /\ users' = users]_vars

\* a second registration of an email was refused
C3_Witness ==
    /\ last.op = "register"
    /\ last.status = 409
    /\ \E u \in users : u.email = last.email /\ u.hashed_password # None

\* the selected string is a token the server signed, not expired (jwt.decode
\* lets a token pass through the second of its exp), whose subject is the id
\* of a stored row
ResolvesTo(candidate, rows, t) ==
    IF candidate = None THEN {}
    ELSE LET s == The(candidate)
         IN  IF s.pad # 0 \/ s.tok = None THEN {}
             ELSE LET tok == The(s.tok)
                  IN  IF /\ tok.sig = <<SECRET_KEY, tok.claims>>
                         /\ tok.claims.exp >= t
                         /\ tok.claims.sub # None
                         /\ CanParseInt(The(tok.claims.sub))
                      THEN {u \in rows : u.id = IntOf(The(tok.claims.sub))}
                      ELSE {}

CookieOf(r) == DictGet(r.cookies, COOKIE_NAME)
AuthOf(r) == DictGet(r.headers, "Authorization")

\* the parts of C5 that do not depend on what "absent" means
C5_Common ==
    /\ Truthy(CookieOf(last)) => last.candidate = CookieOf(last)
    /\ (Truthy(CookieOf(last)) /\ decode_string(The(CookieOf(last)), last.clock) = None)
          => last.status = 401
    /\ (last.candidate # None /\ ~Truthy(CookieOf(last))) =>
          /\ AuthOf(last) # None
          /\ Lower(The(AuthOf(last)).scheme) = "bearer"
          /\ The(AuthOf(last)).spaces >= 1
          /\ last.candidate = Some(PyStr(The(AuthOf(last)).spaces - 1,
                                         The(AuthOf(last)).tok))
    /\ last.candidate = None =>
          /\ last.status = 401
          /\ ~last.decoded
          /\ ~last.store_read

\* C5 as claimed: a non-empty cookie is the candidate and the header is not
\* consulted; the header's bearer value is used only when the cookie is
\* absent; with no token from either the answer is 401 with no decode and no
\* store read.
C5_HeaderOnlyWhenCookieAbsent ==
    last.op = "me" =>
       /\ C5_Common
       /\ (last.candidate # None /\ last.candidate # CookieOf(last))
             => CookieOf(last) = None

\* C5 as amended: the header's bearer value is used when the cookie is absent
\* or empty.
C5_HeaderWhenCookieAbsentOrEmpty ==
    last.op = "me" =>
       /\ C5_Common
       /\ (last.candidate # None /\ last.candidate # CookieOf(last))
             => (CookieOf(last) = None \/ CookieOf(last) = Some(EmptyStr))

\* an empty cookie came with a bearer header, and the header's token was used
C5_Witness ==
    /\ last.op = "me"
    /\ CookieOf(last) = Some(EmptyStr)
    /\ AuthOf(last) # None
    /\ last.candidate # None
    /\ last.status = 200

\* C6: login answers 200 with a token and the HttpOnly cookie exactly when a
\* stored row has the submitted email and the submitted password verifies
\* against that row's hash, and 401 with no cookie otherwise; the token of a
\* successful login for u, sent to GET /auth/me before its expiry while u is
\* stored, resolves to the row with u's id.
C6_LoginContract ==
    [][/\ Served("login") =>
             /\ last'.status = 200 <=>
                   \E u \in users : /\ u.email = last'.email
                                    /\ verify_password(last'.password,
                                                       u.hashed_password)
             /\ last'.status = 200 =>
                   /\ last'.token # None
                   /\ last'.cookie_set # None
                   /\ The(last'.cookie_set).httponly
                   /\ The(last'.cookie_set).value = The(last'.token)
             /\ last'.status # 200 =>
                   /\ last'.status = 401
                   /\ last'.token = None
                   /\ last'.cookie_set = None
       /\ (/\ Served("me")
           /\ held # None
           /\ last'.candidate = Some(PyStr(0, held))
           /\ The(held).claims.exp >= now
           /\ \E u \in users : Str(u.id) = The(The(held).claims.sub))
          => /\ last'.status = 200
             /\ Str(The(last'.user).id) = The(The(held).claims.sub)]_vars

\* C7: logout changes nothing on the server and tells the client to delete
\* the cookie; after login then logout, GET /auth/me with no cookie and no
\* header is a 401, and the token of that login, sent again before its expiry
\* while the user is stored, still resolves to the user.
C7_LogoutIsClientSide ==
    [][/\ Served("logout") =>
             /\ UNCHANGED <<users, nextId, expire_minutes, requests,
                            direct_open, pool_out>>
             /\ last'.status = 204
             /\ last'.cookie_deleted
       /\ (Served("me") /\ held # None /\ jar = None) =>
             /\ (last'.cookies = {} /\ last'.headers = {}) => last'.status = 401
             /\ (/\ last'.candidate = Some(PyStr(0, held))
                 /\ The(held).claims.exp >= now
                 /\ \E u \in users : Str(u.id) = The(The(held).claims.sub))
                => /\ last'.status = 200
                   /\ Str(The(last'.user).id) = The(The(held).claims.sub)]_vars

\* after login and logout the token of that login resolved once more
C7_Witness ==
    /\ last.op = "me"
    /\ last.status = 200
    /\ held # None
    /\ jar = None
    /\ last.candidate = Some(PyStr(0, held))

\* C8: whatever ACCESS_TOKEN_EXPIRE_MINUTES is, the Max-Age of the cookie a
\* successful login sets is the ttl, in seconds, of the token it issued.
C8_MaxAgeIsTokenTtl ==
    (last.op = "login" /\ last.status = 200) =>
       The(last.cookie_set).max_age = The(last.token).claims.exp - last.clock

\* C9: every connection a request acquires is released exactly once on every
\* exit path: the psycopg2 connections open are those of the requests being
\* served, likewise the connections out of the pool; a request holds a
\* connection until its finally block has run and none once it has answered;
\* with every request answered no connection is open or checked out.
C9_AcquireReleasePaired ==
    /\ direct_open = Holders("direct")
    /\ pool_out = Holders("pool")
    /\ \A r \in Tasks : r.pc = "done" <=> r.conn = "none"
    /\ (\A r \in Tasks : r.pc = "done") => direct_open = 0 /\ pool_out = 0

\* a registration was refused with 409 and another request failed on a
\* database error; all have answered
C9_Witness ==
    /\ \E r \in Tasks : r.op = "register" /\ r.status = 409
    /\ \E r \in Tasks : r.status = 500 /\ r.op \in PoolOps \cup {"register"}
    /\ \A r \in Tasks : r.pc = "done"

\* C10: the connections held by the requests being served never exceed the
\* pool maximum.
C10_ConnectionsBounded ==
    direct_open + pool_out <= max_size

\* C11: two concurrent registrations of one email can both read "no such
\* email" before either commits, both INSERT and both commit, leaving two
\* records of that email.  Nothing between the existence read and the commit
\* looks at the store again: a registration past its read goes on to the
\* INSERT and from there to the commit unless the database raises, it is
\* never answered 409, and its commit adds its row and answers 201 whatever
\* rows of that email are stored by then.
C11_RegisterRace ==
    [][\A r \in Tasks : \A r2 \in Tasks' :
          (/\ r.op = "register"
           /\ r.pc \in {"insert", "commit"}
           /\ r2 # r
           /\ Move(r, r2))
          => /\ r2.status \in {0, 201, 500}
             /\ (r.pc = "insert" /\ r2.status # 500) =>
                   /\ r2.pc = "commit"
                   /\ r2.user # None
                   /\ UNCHANGED users
             /\ (r.pc = "commit" /\ r2.status # 500) =>
                   /\ r2.status = 201
                   /\ users' = users \cup {InsertedRow(r)}
                   /\ InsertedRow(r).email = r.email
                   /\ InsertedRow(r) \notin users]_vars

\* two registrations of one email were both answered 201 and the rows of
\* both are stored
C11_Witness ==
    \E r1 \in Tasks, r2 \in Tasks :
       /\ r1 # r2
       /\ r1.op = "register" /\ r2.op = "register"
       /\ r1.status = 201 /\ r2.status = 201
       /\ r1.email = r2.email
       /\ {InsertedRow(r1), InsertedRow(r2)} \subseteq users
       /\ InsertedRow(r1).id # InsertedRow(r2).id

====
